---- MODULE Spec2Model ----
(***************************************************************************)
(* Progressive decode pipeline of the Digi-Key DataMatrix scanner          *)
(* (src/Code_Scanner.py): the payload parser, the candidate generator, the *)
(* background decode worker and the capture/orchestration loop that talks  *)
(* to it through two single-slot queues and one stop event.                *)
(*                                                                         *)
(* Bytes are the integers 0..255 and a bytes object is a sequence of them. *)
(* Time is counted in ticks of one inbound poll timeout (0.05 s), and   *)
(* in half-seconds for the session timeout and the effort schedule; a tick *)
(* may or may not complete a half-second.  Clocks are kept as ages (time   *)
(* since the instant the code stored), saturating just above the threshold *)
(* they are compared with.                                                 *)
(***************************************************************************)
EXTENDS Integers, Sequences, FiniteSets, TLC

\* ------------------------------------------------------------------------
\* Parsing utilities
\* ------------------------------------------------------------------------
GS == 29
RS == 30
EOT == 4

\* python's value None where a string is expected
None == "None"

\* an Optional value: NoneV is None, Some(x) is x
NoneV == <<>>
Some(x) == <<x>>

\* bytes.strip() / bytes.rstrip() whitespace: b' \t\n\r\x0b\x0c'
BytesWhitespace == {32, 9, 10, 13, 11, 12}

\* str.strip() whitespace among the latin-1 code points
StrWhitespace == {9, 10, 11, 12, 13, 28, 29, 30, 31, 32, 133, 160}

\* str.isdigit() among the latin-1 code points: 0-9 and the superscripts 2 3 1
StrDigits == (48..57) \cup {178, 179, 185}

\* F applied to the value of x
Let(x, F(_)) == CHOOSE r \in {F(v) : v \in {x}} : TRUE

StartsWith(b, p) == Len(b) >= Len(p) /\ SubSeq(b, 1, Len(p)) = p

RECURSIVE LStrip(_, _)
LStrip(b, chars) ==
  IF b # <<>> /\ b[1] \in chars THEN LStrip(Tail(b), chars) ELSE b

RECURSIVE RStrip(_, _)
RStrip(b, chars) ==
  IF b # <<>> /\ b[Len(b)] \in chars THEN RStrip(SubSeq(b, 1, Len(b) - 1), chars) ELSE b

Strip(b, chars) == Let(RStrip(b, chars), LAMBDA r : LStrip(r, chars))

\* bytes.replace(pat, rep): left to right, non-overlapping
RECURSIVE Replace(_, _, _)
Replace(b, pat, rep) ==
  IF Len(b) < Len(pat) THEN b
  ELSE IF StartsWith(b, pat)
       THEN rep \o Replace(SubSeq(b, Len(pat) + 1, Len(b)), pat, rep)
       ELSE <<b[1]>> \o Replace(Tail(b), pat, rep)

IsHexDigit(h) == (48 <= h /\ h <= 57) \/ (65 <= h /\ h <= 70) \/ (97 <= h /\ h <= 102)

HexValue(h) == IF h <= 57 THEN h - 48 ELSE IF h <= 70 THEN h - 55 ELSE h - 87

\* the textual sequence \xHH (or \XHH) becomes the byte 0xHH; `buf` is buf[i:]
RECURSIVE _unescape_textual_hex(_)
_unescape_textual_hex(buf) ==
  IF buf = <<>> THEN <<>>
  ELSE IF /\ Len(buf) >= 4
          /\ buf[1] = 92
          /\ buf[2] \in {120, 88}
          /\ IsHexDigit(buf[3])
          /\ IsHexDigit(buf[4])
       THEN <<16 * HexValue(buf[3]) + HexValue(buf[4])>>
              \o _unescape_textual_hex(SubSeq(buf, 5, Len(buf)))
       ELSE <<buf[1]>> \o _unescape_textual_hex(Tail(buf))

\* b"<GS>", b"<RS>", b"<EOT>"
PlaceholderGS == <<60, 71, 83, 62>>
PlaceholderRS == <<60, 82, 83, 62>>
PlaceholderEOT == <<60, 69, 79, 84, 62>>

_normalize_controls(b) ==
  Let(Replace(b, PlaceholderGS, <<GS>>), LAMBDA b1 :
  Let(Replace(b1, PlaceholderRS, <<RS>>), LAMBDA b2 :
  Let(Replace(b2, PlaceholderEOT, <<EOT>>), LAMBDA b3 :
  Let(_unescape_textual_hex(b3), LAMBDA b4 :
  Let(RStrip(b4, BytesWhitespace), LAMBDA b5 : LStrip(b5, BytesWhitespace))))))

\* b"[)>" RS b"06" GS
EnvelopeHeader == <<91, 41, 62, RS, 48, 54, GS>>

\* ENVELOPE_RE: ^ header (?P<body>.*) RS EOT $ with DOTALL.  `$` matches at the
\* end and before one final newline, so the text matched is EnvelopeText(b).
EnvelopeText(b) ==
  IF b # <<>> /\ b[Len(b)] = 10 THEN SubSeq(b, 1, Len(b) - 1) ELSE b

ENVELOPE_RE_matches(b) ==
  LET t == EnvelopeText(b)
  IN  /\ Len(t) >= Len(EnvelopeHeader) + 2
      /\ StartsWith(t, EnvelopeHeader)
      /\ SubSeq(t, Len(t) - 1, Len(t)) = <<RS, EOT>>

ENVELOPE_RE_body(b) ==
  LET t == EnvelopeText(b)
  IN  SubSeq(t, Len(EnvelopeHeader) + 1, Len(t) - 2)

\* a clean-up that leaves the header in place
_bytes_clean_keep_header(b) == RStrip(_normalize_controls(b), {RS, EOT})

_bytes_clean(b) ==
  Let(_normalize_controls(b), LAMBDA n :
  Let(RStrip(n, {RS, EOT}), LAMBDA t :
    IF StartsWith(t, EnvelopeHeader)
    THEN SubSeq(t, Len(EnvelopeHeader) + 1, Len(t))
    ELSE t))

\* Known Digi-Key DIs, in the order the parser tries them
DI_ORDER ==
  << "30P", "12Z", "11Z", "11K", "10K", "10D",
     "1K", "1P", "1T", "9D", "4L", "Q", "K", "P", "E", "13Z", "20Z" >>

\* cand.encode("ascii")
DIBytes(di) ==
  CASE di = "30P" -> <<51, 48, 80>>
    [] di = "12Z" -> <<49, 50, 90>>
    [] di = "11Z" -> <<49, 49, 90>>
    [] di = "11K" -> <<49, 49, 75>>
    [] di = "10K" -> <<49, 48, 75>>
    [] di = "10D" -> <<49, 48, 68>>
    [] di = "1K" -> <<49, 75>>
    [] di = "1P" -> <<49, 80>>
    [] di = "1T" -> <<49, 84>>
    [] di = "9D" -> <<57, 68>>
    [] di = "4L" -> <<52, 76>>
    [] di = "Q" -> <<81>>
    [] di = "K" -> <<75>>
    [] di = "P" -> <<80>>
    [] di = "E" -> <<69>>
    [] di = "13Z" -> <<49, 51, 90>>
    [] di = "20Z" -> <<50, 48, 90>>

\* Friendly names for output fields
DI_TO_FIELD(di) ==
  CASE di = "P" -> "customer_reference"
    [] di = "1P" -> "mfr_part_number"
    [] di = "30P" -> "digikey_part_number"
    [] di = "K" -> "purchase_order"
    [] di = "1K" -> "sales_order"
    [] di = "10K" -> "invoice_number"
    [] di = "9D" -> "date_code"
    [] di = "10D" -> "date_code"
    [] di = "1T" -> "lot_code"
    [] di = "11K" -> "packing_list_number"
    [] di = "4L" -> "country_of_origin"
    [] di = "Q" -> "quantity"
    [] di = "11Z" -> "label_type"
    [] di = "12Z" -> "internal_part_id"
    [] di = "13Z" -> "internal_unused"
    [] di = "20Z" -> "padding"
    [] di = "E" -> "compliance"

\* a diagnostics policy that asks for the part number only
REQUIRED_DIs_30P_only == << "30P" >>

\* Minimal acceptance policy of the parser's diagnostics
REQUIRED_DIs == << "30P", "Q" >>

\* an acceptance policy without the manufacturer part number
REQUIRED_ACCEPT_DIs_without_1P == << "30P", "Q" >>

\* Acceptance policy of the completeness predicate
REQUIRED_ACCEPT_DIs == << "30P", "Q", "1P" >>

\* body.split(bytes([GS])): `cur` is the piece being read
RECURSIVE SplitOn(_, _, _)
SplitOn(b, sep, cur) ==
  IF b = <<>> THEN <<cur>>
  ELSE IF b[1] = sep THEN <<cur>> \o SplitOn(Tail(b), sep, <<>>)
       ELSE SplitOn(Tail(b), sep, Append(cur, b[1]))

\* tokens = [t for t in body.split(bytes([GS])) if t]
Tokens(body) ==
  Let(SplitOn(body, GS, <<>>), LAMBDA pieces : SelectSeq(pieces, LAMBDA t : t # <<>>))

\* a table in which no DI is found
MatchNothing(tok, i) == None

\* the first cand of DI_ORDER[i..] that tok starts with, or None
RECURSIVE MatchDI(_, _)
MatchDI(tok, i) ==
  IF i > Len(DI_ORDER) THEN None
  ELSE IF StartsWith(tok, DIBytes(DI_ORDER[i])) THEN DI_ORDER[i]
       ELSE MatchDI(tok, i + 1)

\* a value that keeps the DI in front
TokenValueWhole(tok, di) == Strip(tok, StrWhitespace)

\* value = tok[len(di):].decode("latin-1", errors="replace").strip()
TokenValue(tok, di) == Strip(SubSeq(tok, Len(DIBytes(di)) + 1, Len(tok)), StrWhitespace)

\* a store that logs no duplicate
PutDISilent(acc, di, value) ==
  [ acc EXCEPT !.by_di = [d \in DOMAIN acc.by_di \cup {di} |->
                            IF d = di THEN value ELSE acc.by_di[d]] ]

\* if di in by_di: duplicates.append(...); by_di[di] = value
PutDI(acc, di, value) ==
  [ by_di |-> [d \in DOMAIN acc.by_di \cup {di} |->
                 IF d = di THEN value ELSE acc.by_di[d]],
    unknown_tokens |-> acc.unknown_tokens,
    duplicates |->
      IF di \in DOMAIN acc.by_di
      THEN Append(acc.duplicates,
             [di |-> di, previous |-> acc.by_di[di], kept |-> value])
      ELSE acc.duplicates ]

\* the loop over tokens: acc = [by_di, unknown_tokens, duplicates]
RECURSIVE ScanTokens(_, _)
ScanTokens(tokens, acc) ==
  IF tokens = <<>> THEN acc
  ELSE Let(Head(tokens), LAMBDA tok :
       Let(MatchDI(tok, 1), LAMBDA di :
         IF di = None
         THEN ScanTokens(Tail(tokens), [acc EXCEPT !.unknown_tokens = Append(@, tok)])
         ELSE Let(PutDI(acc, di, TokenValue(tok, di)), LAMBDA acc2 :
                ScanTokens(Tail(tokens), acc2))))

EmptyMap == [d \in {} |-> <<>>]

\* an isdigit() that never holds
IsDigitStrNever(s) == FALSE

\* body_str.isdigit(): non-empty and every character a digit
IsDigitStr(s) == s # <<>> /\ \A i \in 1..Len(s) : s[i] \in StrDigits

\* str.upper() of a latin-1 character, as code points: the sharp s becomes SS,
\* the micro sign and y with diaeresis leave latin-1
UpperChar(c) ==
  IF c \in 97..122 THEN <<c - 32>>
  ELSE IF c = 223 THEN <<83, 83>>
  ELSE IF c = 181 THEN <<924>>
  ELSE IF c = 255 THEN <<376>>
  ELSE IF c \in 224..254 /\ c # 247 THEN <<c - 32>>
  ELSE <<c>>

RECURSIVE Upper(_)
Upper(str) == IF str = <<>> THEN <<>> ELSE UpperChar(Head(str)) \o Upper(Tail(str))

\* re.fullmatch(r"[A-Z]{2}", coo)
IsTwoLetterCode(coo) == Len(coo) = 2 /\ \A i \in 1..2 : coo[i] \in 65..90

\* the digits of an int() literal after the sign: decimal digits, single
\* underscores between them
IsIntDigits(str) ==
  /\ str # <<>>
  /\ \A i \in 1..Len(str) : str[i] \in (48..57) \cup {95}
  /\ str[1] # 95
  /\ str[Len(str)] # 95
  /\ \A i \in 1..(Len(str) - 1) : ~ (str[i] = 95 /\ str[i + 1] = 95)

RECURSIVE DigitsValue(_, _)
DigitsValue(str, acc) ==
  IF str = <<>> THEN acc
  ELSE IF Head(str) = 95 THEN DigitsValue(Tail(str), acc)
  ELSE DigitsValue(Tail(str), 10 * acc + (Head(str) - 48))

\* int(str(value).strip()) outside any try block: the ValueError of a value that
\* is not an integer literal leaves the parser
CoerceQuantityUncaught(value) ==
  Let(Strip(value, StrWhitespace), LAMBDA t :
    IF t # <<>> /\ t[1] \in {43, 45} /\ IsIntDigits(Tail(t))
    THEN <<"int", (IF t[1] = 45 THEN 0 - 1 ELSE 1) * DigitsValue(Tail(t), 0)>>
    ELSE IF IsIntDigits(t) THEN <<"int", DigitsValue(t, 0)>>
    ELSE <<"raise", <<86, 97, 108, 117, 101, 69, 114, 114, 111, 114>> >>)

\* fields["quantity"] after int(str(value).strip()) in try/except: the integer
\* as <<"int", n>>, or the value left as it was as <<"str", value>>
CoerceQuantity(value) ==
  Let(Strip(value, StrWhitespace), LAMBDA t :
    IF t # <<>> /\ t[1] \in {43, 45} /\ IsIntDigits(Tail(t))
    THEN <<"int", (IF t[1] = 45 THEN 0 - 1 ELSE 1) * DigitsValue(Tail(t), 0)>>
    ELSE IF IsIntDigits(t) THEN <<"int", DigitsValue(t, 0)>>
    ELSE <<"str", value>>)

\* the keys of `fields`
FieldKeys(by_di, hint) ==
  {DI_TO_FIELD(d) : d \in DOMAIN by_di}
    \cup (IF "9D" \in DOMAIN by_di /\ "10D" \in DOMAIN by_di /\ by_di["10D"] # by_di["9D"]
          THEN {"date_code_sources"} ELSE {})
    \cup (IF "4L" \in DOMAIN by_di
             /\ ~ IsTwoLetterCode(Upper(Strip(by_di["4L"], StrWhitespace)))
          THEN {"_warnings"} ELSE {})
    \cup (IF "1P" \in DOMAIN by_di THEN {"manufacturer_part_number"} ELSE {})
    \cup (IF hint # None THEN {"internal_part_id"} ELSE {})

\* a fields dict whose values are all the body
FieldsFromBody(by_di, body_str, hint) == [ k \in FieldKeys(by_di, hint) |-> body_str ]

\* the `fields` dict: straight mappings, date code preference, quantity and
\* country normalisation, the legacy alias, the digits-only fallback
Fields(by_di, body_str, hint) ==
  [ k \in FieldKeys(by_di, hint) |->
      CASE k = "date_code" ->
             IF "9D" \in DOMAIN by_di THEN Strip(by_di["9D"], StrWhitespace)
             ELSE Strip(by_di["10D"], StrWhitespace)
        [] k = "date_code_sources" -> [d \in {"10D"} |-> by_di["10D"]]
        [] k = "quantity" -> CoerceQuantity(by_di["Q"])
        [] k = "country_of_origin" -> Upper(Strip(by_di["4L"], StrWhitespace))
        [] k = "_warnings" -> << "country_of_origin not 2-letter code" >>
        [] k = "manufacturer_part_number" -> by_di["1P"]
        [] k = "internal_part_id" /\ hint # None -> body_str
        [] OTHER -> by_di[CHOOSE d \in DOMAIN by_di : DI_TO_FIELD(d) = k] ]

\* the parse once raw_norm, envelope_valid, body and the scan of the tokens are known
ParseResult(envelope_valid, body, scan, body_str) ==
  LET by_di == scan.by_di
      result_hint == IF DOMAIN by_di = {} /\ IsDigitStr(body_str)
                        /\ 6 <= Len(body_str) /\ Len(body_str) <= 14
                     THEN "digits_only_internal_id" ELSE None
  IN  [ envelope_valid |-> envelope_valid,
        body |-> body,
        by_di |-> by_di,
        fields |-> Fields(by_di, body_str, result_hint),
        field_keys |-> FieldKeys(by_di, result_hint),
        inference |-> result_hint,
        unknown_groups |-> scan.unknown_tokens,
        duplicates |-> scan.duplicates,
        missing_required |->
          SelectSeq(REQUIRED_DIs, LAMBDA di : di \notin DOMAIN by_di) ]

parse_digikey_payload(raw_bytes) ==
  Let(_normalize_controls(raw_bytes), LAMBDA raw_norm :
  Let(ENVELOPE_RE_matches(raw_norm), LAMBDA envelope_valid :
  Let(IF envelope_valid THEN ENVELOPE_RE_body(raw_norm) ELSE _bytes_clean(raw_norm),
      LAMBDA body :
  Let(Tokens(body), LAMBDA tokens :
  Let(ScanTokens(tokens,
        [by_di |-> EmptyMap, unknown_tokens |-> <<>>, duplicates |-> <<>>]),
      LAMBDA scan :
  Let(Strip(body, StrWhitespace), LAMBDA body_str :
    ParseResult(envelope_valid, body, scan, body_str)))))))

_is_complete_payload(parsed) ==
  IF DOMAIN parsed.by_di = {} /\ "internal_part_id" \in parsed.field_keys THEN FALSE
  ELSE IF parsed.inference = "digits_only_internal_id" THEN FALSE
  ELSE \A i \in 1..Len(REQUIRED_ACCEPT_DIs) : REQUIRED_ACCEPT_DIs[i] \in DOMAIN parsed.by_di

\* ------------------------------------------------------------------------
\* Candidate generation by effort level (images are named by their tags)
\* ------------------------------------------------------------------------
\* rotations that yield the unrotated image only
rotations_r0_only(tag) == << <<tag, "r0">> >>

\* rotations(img): the tags r0, r90, r180, r270 appended to the image's tag
rotations(tag) == << <<tag, "r0">>, <<tag, "r90">>, <<tag, "r180">>, <<tag, "r270">> >>

RECURSIVE FlattenRotations(_)
FlattenRotations(tags) ==
  IF tags = <<>> THEN <<>> ELSE rotations(Head(tags)) \o FlattenRotations(Tail(tags))

\* a _yield without the cap
YieldAll(imgs, max_candidates) == imgs

\* _yield lets an image through while count < max_candidates
YieldCapped(imgs, max_candidates) ==
  SubSeq(imgs, 1, IF Len(imgs) < max_candidates THEN Len(imgs) ELSE max_candidates)

RECURSIVE generate_candidates(_, _)
generate_candidates(level, max_candidates) ==
  LET l0 == << <<"gray">> >>
      l1 == IF level >= 1 THEN << <<"fastc">> >> ELSE <<>>
      l2 == IF level >= 2 THEN << <<"clahe">>, <<"sharp">> >> ELSE <<>>
      l3 == IF level >= 3 THEN << <<"gray", "inv">>, <<"fastc", "inv">> >> ELSE <<>>
      l4 == IF level >= 4 THEN << <<"up1.5">> >> ELSE <<>>
      l5 == IF level >= 5
            THEN FlattenRotations(generate_candidates(0, max_candidates))
            ELSE <<>>
  IN  YieldCapped(l0 \o l1 \o l2 \o l3 \o l4 \o l5, max_candidates)

\* ------------------------------------------------------------------------
\* Effort schedule: (start_level, escalate_every, max_level).  escalate_every is
\* compared with an age counted in whole half-seconds, for which
\* age > 2.5 s, age > 1.0 s, age > 1.8 s are age > 5, age > 2, age > 3.
\* ------------------------------------------------------------------------
\* a schedule that ignores the mode
_effort_schedule_balanced_only(mode) == <<0, 3, 5>>

_effort_schedule(mode) ==
  IF mode = "fast" THEN <<0, 5, 3>>
  ELSE IF mode = "aggressive" THEN <<1, 2, 5>>
  ELSE <<0, 3, 5>>

\* ------------------------------------------------------------------------
\* Bounds and inputs of the scan session
\* ------------------------------------------------------------------------
\* in_q.get(timeout=0.05): one tick
PollTimeout == 1
\* worker.join(timeout=0.5)
JoinTimeout == 10
\* queue.Queue(maxsize=1)
QueueMaxsize == 1
\* the longest a blocking cap.read() takes, in ticks
MaxRead == 1
\* the longest one backend call takes, in ticks
MaxDecode == 1
\* frames are told apart up to this number
MaxFrames == 3
\* the backend is asked for max_count=6 symbols; it returns at most this many
MaxSymbols == 2

\* frame.shape[:2] = (h, w)
FrameShape == <<4, 8>>

\* Sample payloads a backend may return
PayloadFullA ==
  EnvelopeHeader \o <<51, 48, 80, 49, GS, 81, 53, GS, 49, 80, 65, RS, EOT>>
PayloadFullB == <<51, 48, 80, 50, GS, 81, 49, GS, 49, 80, 66>>
PayloadPartial == EnvelopeHeader \o <<51, 48, 80, 49, GS, 81, 53, RS, EOT>>

\* what a decoded symbol can look like: d.bytes / d.data and d.rect; rect_ok is
\* false for malformed symbol data (a rect whose `left` int() refuses)
Symbols ==
  { [data |-> PayloadFullA, rect |-> <<1, 0, 2, 2>>, rect_ok |-> TRUE],
    [data |-> PayloadFullB, rect |-> <<0, 1, 2, 2>>, rect_ok |-> TRUE],
    [data |-> PayloadFullA, rect |-> <<0, 0, 0, 0>>, rect_ok |-> FALSE],
    [data |-> PayloadPartial, rect |-> <<0, 0, 0, 0>>, rect_ok |-> TRUE] }

\* lists of at most MaxSymbols distinct symbols
SymbolLists ==
  { l \in UNION {[1..n -> Symbols] : n \in 0..MaxSymbols} :
      \A i, j \in 1..Len(l) : i # j => l[i] # l[j] }

\* what try_decode_image can do: return a list of symbols, or raise
BackendResults ==
  [ raises : {FALSE}, syms : SymbolLists ] \cup {[raises |-> TRUE, syms |-> <<>>]}

\* a ScanConfig: timeout_s in half-seconds (0 is no timeout), decode_interval_s
\* and decode_budget_ms in ticks
Config(mode, timeout_s, show_window, roi_only, interval, budget, max_candidates) ==
  [ mode |-> mode, timeout_s |-> timeout_s, show_window |-> show_window,
    roi_only |-> roi_only, decode_interval_s |-> interval,
    decode_budget_ms |-> budget, max_candidates |-> max_candidates ]

\* the configurations of a session that are explored
Configs ==
  { Config("balanced", 2, FALSE, TRUE, 1, 1, 2),
    Config("balanced", 1, TRUE, FALSE, 2, 0, 2),
    Config("fast", 2, TRUE, TRUE, 1, 0, 1),
    Config("aggressive", 1, FALSE, FALSE, 1, 1, 2) }

\* parse_digikey_payload(raw) of the sample payloads
ParsedOf == [ d \in {s.data : s \in Symbols} |-> parse_digikey_payload(d) ]

\* _is_complete_payload(parse_digikey_payload(bytes(raw))) of the sample payloads
CompleteOf == [ d \in DOMAIN ParsedOf |-> _is_complete_payload(ParsedOf[d]) ]

Sat(age, cap) == IF age < cap THEN age + 1 ELSE age

\* ------------------------------------------------------------------------
\* State of one scan session
\* ------------------------------------------------------------------------
VARIABLES
  cfg,          \* the ScanConfig of the session
  opc,          \* where scan_loop is
  cap_open,     \* the capture device is held
  level,        \* effort level
  found_data,   \* Optional bytes
  found_rect,
  pending,      \* the message of the return statement that left the try block
  result,       \* Optional ScanResult, set when scan_loop returns
  frame_no,     \* the frame cap.read() returned last
  sess_age,     \* time.time() - start_time
  submit_age,   \* now - last_submit_t
  esc_age,      \* time.time() - last_escalate_t
  read_age,     \* time spent in the cap.read() under way
  join_age,     \* time spent in worker.join
  in_q,         \* orchestrator -> worker
  out_q,        \* worker -> orchestrator
  stop_event,
  wpc,          \* where _decode_worker is
  item,         \* the WorkItem being processed
  ci,           \* candidates of the item taken from the generator so far
  got,          \* Optional (bytes, rect)
  item_age,     \* time.time() - start
  get_age,      \* time spent in the in_q.get under way
  dec_age,      \* time spent in the backend call under way
  newest,       \* history: the frame of the latest WorkItem handed to put_nowait
  first_hit,    \* history: the first complete symbol met while processing item
  accepted,     \* history: the first raw payload the worker accepted (Optional)
  put_accepted, \* history: a put of an accepted tuple was attempted
  delivered,    \* history: the first accepted raw payload that entered out_q
  stop_age,     \* history: time since stop_event.set()
  worked_after_stop, \* history: the worker held a WorkItem at or after stop_event.set()
  pin,          \* the arguments of a call of a pure function studied on its own
  pout          \* Optional: what the call returned

vars ==
  << cfg, opc, cap_open, level, found_data, found_rect, pending, result, frame_no,
     sess_age, submit_age, esc_age, read_age, join_age, in_q, out_q, stop_event,
     wpc, item, ci, got, item_age, get_age, dec_age,
     newest, first_hit, accepted, put_accepted, delivered, stop_age,
     worked_after_stop, pin, pout >>

orch_vars ==
  << opc, cap_open, level, found_data, found_rect, pending, result, frame_no,
     sess_age, submit_age, esc_age, read_age, join_age >>

worker_vars == << wpc, item, ci, got, item_age, get_age, dec_age >>

history_vars ==
  << newest, first_hit, accepted, put_accepted, delivered, stop_age, worked_after_stop >>

WorkItem(img_gray, roi_offset, lvl) ==
  [img_gray |-> img_gray, roi_offset |-> roi_offset, level |-> lvl]

\* WorkItem(np.zeros((1,1), np.uint8), (0,0), 0): no frame has number 0
PoisonItem == WorkItem(0, <<0, 0>>, 0)

\* the worker thread has ended (returned, or died of an exception)
WorkerEnded == wpc \in {"done", "dead"}

\* the locals of scan_loop and of the worker before the session starts
InitSession ==
  /\ opc = "init"
  /\ cap_open = FALSE
  /\ level = 0
  /\ found_data = NoneV
  /\ found_rect = <<0, 0, 0, 0>>
  /\ pending = ""
  /\ result = NoneV
  /\ frame_no = 0
  /\ sess_age = 0
  /\ submit_age = 0
  /\ esc_age = 0
  /\ read_age = 0
  /\ join_age = 0
  /\ in_q = <<>>
  /\ out_q = <<>>
  /\ stop_event = FALSE
  /\ wpc = "idle"
  /\ item = PoisonItem
  /\ ci = 0
  /\ got = NoneV
  /\ item_age = 0
  /\ get_age = 0
  /\ dec_age = 0
  /\ newest = 0
  /\ first_hit = NoneV
  /\ accepted = NoneV
  /\ put_accepted = FALSE
  /\ delivered = NoneV
  /\ stop_age = 0
  /\ worked_after_stop = FALSE

\* no pure function is studied on its own
NoCall == pin = NoneV /\ pout = NoneV

Init == cfg \in Configs /\ InitSession /\ NoCall

\* ------------------------------------------------------------------------
\* Queue operations
\* ------------------------------------------------------------------------
\* a put that never finds the queue full
put_nowait_unbounded(q, x) == Append(q, x)

\* a put that evicts the oldest element of a full queue
put_nowait_evict(q, x) ==
  IF Len(q) < QueueMaxsize THEN Append(q, x) ELSE Append(Tail(q), x)

\* a put that replaces whatever the queue holds
put_nowait_replace(q, x) == <<x>>

\* q.put_nowait(x) inside try/except queue.Full: the put is dropped on a full queue
put_nowait(q, x) == IF Len(q) < QueueMaxsize THEN Append(q, x) ELSE q

\* the ROI offset of a WorkItem: (x1, y1) of the centred 50% rectangle, or (0, 0)
RoiOffset(roi_only) ==
  LET h == FrameShape[1]
      w == FrameShape[2]
      gh == h \div 2
      gw == w \div 2
  IN  IF roi_only THEN <<(w - gw) \div 2, (h - gh) \div 2>> ELSE <<0, 0>>

\* ------------------------------------------------------------------------
\* scan_loop
\* ------------------------------------------------------------------------
\* an exit that enters the finally clause after stop_event.set()
ExitSkipsStop == "fin_nudge"

\* where a return or break inside the try block continues: the finally clause
ExitPc == "fin_stop"

\* a loop head that never times out
LoopHeadNoTimeout(timeout_s, age, msg) == <<"read", msg>>

\* top of `while True`: the session timeout decides between the return and cap.read();
\* the value is <<pc, pending message>>
LoopHead(timeout_s, age, msg) ==
  IF timeout_s # 0 /\ age > timeout_s
  THEN <<ExitPc, "Timed out without detecting a DataMatrix code.">>
  ELSE <<"read", msg>>

\* cv2.VideoCapture(...), cap.isOpened(), the worker thread's start, the clocks,
\* the first pass through the top of the loop
OrchOpen ==
  /\ opc = "init"
  /\ \E opened \in BOOLEAN :
       IF opened
       THEN /\ cap_open' = TRUE
            /\ wpc' = "top"
            /\ level' = _effort_schedule(cfg.mode)[1]
            /\ submit_age' = cfg.decode_interval_s
            /\ opc' = LoopHead(cfg.timeout_s, sess_age, pending)[1]
            /\ pending' = LoopHead(cfg.timeout_s, sess_age, pending)[2]
            /\ UNCHANGED result
       ELSE /\ result' = Some([success |-> FALSE, message |-> "Unable to open camera index",
                               raw |-> NoneV, data |-> NoneV])
            /\ opc' = "returned"
            /\ UNCHANGED <<cap_open, wpc, level, submit_age, pending>>
  /\ UNCHANGED << pin, pout, cfg, found_data, found_rect, frame_no, sess_age, esc_age,
                  read_age, join_age, in_q, out_q, stop_event, item, ci, got,
                  item_age, get_age, dec_age, history_vars >>

\* cap.read() returns; the frame is submitted at the requested cadence
OrchReadSubmit ==
  /\ opc = "read"
  /\ \E ret \in BOOLEAN :
       IF ~ ret
       THEN /\ pending' = "Failed to read from camera."
            /\ opc' = ExitPc
            /\ UNCHANGED <<frame_no, submit_age, in_q, newest>>
       ELSE /\ frame_no' = Sat(frame_no, MaxFrames)
            /\ opc' = "poll"
            /\ IF submit_age >= cfg.decode_interval_s
               THEN /\ submit_age' = 0
                    /\ in_q' = put_nowait(in_q,
                                 WorkItem(frame_no', RoiOffset(cfg.roi_only), level))
                    /\ newest' = frame_no'
               ELSE UNCHANGED <<submit_age, in_q, newest>>
            /\ UNCHANGED pending
  /\ read_age' = 0
  /\ UNCHANGED << pin, pout, cfg, cap_open, level, found_data, found_rect, result, sess_age,
                  esc_age, join_age, out_q, stop_event, worker_vars,
                  first_hit, accepted, put_accepted, delivered, stop_age,
                  worked_after_stop >>

\* out_q.get_nowait(), the result, the escalation, the cancel key, the break, and
\* the top of the next iteration
OrchPollUI ==
  /\ opc = "poll"
  /\ LET polled == IF out_q # <<>> THEN Head(out_q) ELSE NoneV
         hit == polled # NoneV /\ polled[1].raw # <<>>
         fd == IF hit THEN Some(polled[1].raw) ELSE found_data
         sched == _effort_schedule(cfg.mode)
         escalate == fd = NoneV /\ esc_age > sched[2]
     IN  /\ out_q' = IF out_q # <<>> THEN Tail(out_q) ELSE out_q
         /\ found_data' = fd
         /\ found_rect' = IF hit THEN polled[1].rect ELSE found_rect
         /\ level' = IF escalate /\ level < sched[3] THEN level + 1 ELSE level
         /\ esc_age' = IF escalate THEN 0 ELSE esc_age
         /\ \E cancel \in {FALSE, cfg.show_window} :
              IF cancel
              THEN /\ pending' = "Cancelled by user."
                   /\ opc' = ExitPc
              ELSE IF fd # NoneV
                   THEN /\ pending' = "OK"
                        /\ opc' = ExitPc
                   ELSE /\ opc' = LoopHead(cfg.timeout_s, sess_age, pending)[1]
                        /\ pending' = LoopHead(cfg.timeout_s, sess_age, pending)[2]
  /\ UNCHANGED << pin, pout, cfg, cap_open, result, frame_no, sess_age, submit_age, read_age,
                  join_age, in_q, stop_event, worker_vars, history_vars >>

\* finally: stop_event.set()
OrchStop ==
  /\ opc = "fin_stop"
  /\ stop_event' = TRUE
  /\ stop_age' = 0
  /\ opc' = "fin_nudge"
  /\ UNCHANGED << pin, pout, cfg, cap_open, level, found_data, found_rect, pending, result,
                  frame_no, sess_age, submit_age, esc_age, read_age, join_age, in_q,
                  out_q, worker_vars, newest, first_hit, accepted, put_accepted,
                  delivered >>
  /\ worked_after_stop' = (wpc \in {"decoding", "put", "hung"})

\* finally: the poison item
OrchNudge ==
  /\ opc = "fin_nudge"
  /\ in_q' = put_nowait(in_q, PoisonItem)
  /\ join_age' = 0
  /\ opc' = "join"
  /\ UNCHANGED << pin, pout, cfg, cap_open, level, found_data, found_rect, pending, result,
                  frame_no, sess_age, submit_age, esc_age, read_age, out_q,
                  stop_event, worker_vars, history_vars >>

\* a join without a deadline
JoinWaitsForEnd == WorkerEnded

\* worker.join(timeout=0.5) returns when the thread has ended or on the deadline
JoinReturns == WorkerEnded \/ join_age >= JoinTimeout

\* a return that reports success whatever happened
ScanResultOfSuccess(msg, fd) ==
  [ success |-> TRUE, message |-> "OK", raw |-> fd,
    data |-> Some(IF fd = NoneV THEN parse_digikey_payload(<<>>) ELSE ParsedOf[fd[1]]) ]

\* a return that reports failure whatever happened
ScanResultOfFailure(msg, fd) ==
  [ success |-> FALSE, message |-> msg, raw |-> NoneV, data |-> NoneV ]

\* the ScanResult of the pending return statement, or of the
\* `return ScanResult(True, ...)` after the loop
ScanResultOf(msg, fd) ==
  IF msg = "OK"
  THEN [ success |-> TRUE, message |-> "OK", raw |-> fd, data |-> Some(ParsedOf[fd[1]]) ]
  ELSE [ success |-> FALSE, message |-> msg, raw |-> NoneV, data |-> NoneV ]

\* finally: worker.join returns, cap.release(); then the return
OrchJoin ==
  /\ opc = "join"
  /\ JoinReturns
  /\ cap_open' = FALSE
  /\ result' = Some(ScanResultOf(pending, found_data))
  /\ opc' = "returned"
  /\ UNCHANGED << pin, pout, cfg, level, found_data, found_rect, pending, frame_no, sess_age,
                  submit_age, esc_age, read_age, join_age, in_q, out_q, stop_event,
                  worker_vars, history_vars >>

\* ------------------------------------------------------------------------
\* _decode_worker
\* ------------------------------------------------------------------------
\* the index of the first symbol of res[i..] that has data and parses complete, or 0
RECURSIVE FirstComplete(_, _)
FirstComplete(res, i) ==
  IF i > Len(res) THEN 0
  ELSE IF res[i].data # <<>> /\ CompleteOf[res[i].data] THEN i
       ELSE FirstComplete(res, i + 1)

\* the (raw, rect) tuple of an accepted symbol, its rect moved by the ROI offset
AcceptedTuple(d, roi_offset) ==
  [ raw |-> d.data,
    rect |-> << d.rect[1] + roi_offset[1], d.rect[2] + roi_offset[2],
                d.rect[3], d.rect[4] >> ]

\* the body of the candidate loop raises: the backend call does, or int() on the rect
CandidateRaises(res) ==
  \/ res.raises
  \/ LET k == FirstComplete(res.syms, 1) IN k # 0 /\ ~ res.syms[k].rect_ok

\* `got` after the loop over the symbols of one candidate
GotAfter(res, roi_offset, g) ==
  LET k == FirstComplete(res.syms, 1)
  IN  IF k = 0 THEN g ELSE Some(AcceptedTuple(res.syms[k], roi_offset))

\* the candidate loop goes on to the next candidate: the generator has one, and
\* the budget check did not break
NextCandidate(g, n_taken, n_cands, age, budget) ==
  /\ n_taken < n_cands
  /\ ~ (g = NoneV /\ age > budget)

\* a worker that never sees the stop flag
StopEventNeverSeen == FALSE

\* stop_event.is_set()
StopEventIsSet == stop_event

\* while not stop_event.is_set()
WorkerCheck ==
  /\ wpc = "top"
  /\ IF StopEventIsSet THEN wpc' = "done" ELSE wpc' = "get"
  /\ get_age' = 0
  /\ UNCHANGED << pin, pout, cfg, orch_vars, in_q, out_q, stop_event, item, ci, got, item_age,
                  dec_age, history_vars >>

\* in_q.get(timeout=0.05) returns an item; the first candidate goes to the backend
WorkerGet ==
  /\ wpc = "get"
  /\ in_q # <<>>
  /\ item' = Head(in_q)
  /\ in_q' = Tail(in_q)
  /\ got' = NoneV
  /\ first_hit' = NoneV
  /\ item_age' = 0
  /\ dec_age' = 0
  /\ IF generate_candidates(Head(in_q).level, cfg.max_candidates) = <<>>
     THEN ci' = 0 /\ wpc' = "put"
     ELSE ci' = 1 /\ wpc' = "decoding"
  /\ get_age' = 0
  /\ worked_after_stop' = stop_event
  /\ UNCHANGED << pin, pout, cfg, orch_vars, out_q, stop_event,
                  newest, accepted, put_accepted, delivered, stop_age >>

\* in_q.get(timeout=0.05) raises queue.Empty: continue
WorkerGetTimeout ==
  /\ wpc = "get"
  /\ in_q = <<>>
  /\ get_age >= PollTimeout
  /\ wpc' = "top"
  /\ get_age' = 0
  /\ UNCHANGED << pin, pout, cfg, orch_vars, in_q, out_q, stop_event, item, ci, got, item_age,
                  dec_age, history_vars >>

\* try_decode_image returns for candidate ci: the symbols, the budget, the next one
WorkerDecode ==
  /\ wpc = "decoding"
  /\ \E res \in BackendResults :
       IF CandidateRaises(res)
       THEN /\ wpc' = "dead"
            /\ UNCHANGED <<ci, got, first_hit, accepted>>
       ELSE LET g == GotAfter(res, item.roi_offset, got)
                k == FirstComplete(res.syms, 1)
                n == Len(generate_candidates(item.level, cfg.max_candidates))
            IN  /\ got' = g
                /\ first_hit' = IF first_hit = NoneV THEN g ELSE first_hit
                /\ accepted' = IF k # 0 /\ accepted = NoneV THEN Some(g[1].raw)
                               ELSE accepted
                /\ IF NextCandidate(g, ci, n, item_age, cfg.decode_budget_ms)
                   THEN ci' = ci + 1 /\ wpc' = "decoding"
                   ELSE ci' = ci /\ wpc' = "put"
  /\ dec_age' = 0
  /\ UNCHANGED << pin, pout, cfg, orch_vars, in_q, out_q, stop_event, item, item_age, get_age,
                  newest, put_accepted, delivered, stop_age, worked_after_stop >>

\* the backend call under way never returns
WorkerHang ==
  /\ wpc = "decoding"
  /\ wpc' = "hung"
  /\ UNCHANGED << pin, pout, cfg, orch_vars, in_q, out_q, stop_event, item, ci, got, item_age,
                  get_age, dec_age, history_vars >>

\* out_q.put_nowait(got), in_q.task_done(); the locals of the iteration are dead
\* from here to the next in_q.get and are reset
WorkerPut ==
  /\ wpc = "put"
  /\ out_q' = put_nowait(out_q, got)
  /\ put_accepted' = (put_accepted \/ got # NoneV)
  /\ delivered' = IF got # NoneV /\ delivered = NoneV /\ put_nowait(out_q, got) # out_q
                  THEN Some(got[1].raw) ELSE delivered
  /\ wpc' = "top"
  /\ item' = PoisonItem
  /\ ci' = 0
  /\ got' = NoneV
  /\ first_hit' = NoneV
  /\ item_age' = 0
  /\ UNCHANGED << pin, pout, cfg, orch_vars, in_q, stop_event, get_age, dec_age, newest,
                  accepted, stop_age, worked_after_stop >>

\* ------------------------------------------------------------------------
\* Time
\* ------------------------------------------------------------------------
\* the orchestrator is in a call that takes time: cap.read(), worker.join, or gone
OrchWaits ==
  \/ opc = "read" /\ read_age < MaxRead
  \/ opc = "join" /\ ~ JoinReturns
  \/ opc = "returned"

\* the worker is in a call that takes time: in_q.get on an empty queue, the backend
WorkerWaits ==
  \/ wpc = "get" /\ in_q = <<>> /\ get_age < PollTimeout
  \/ wpc = "decoding" /\ dec_age < MaxDecode
  \/ wpc \in {"idle", "done", "dead", "hung"}

Tick ==
  /\ OrchWaits
  /\ WorkerWaits
  /\ IF opc = "read"
     THEN /\ read_age' = read_age + 1
          /\ submit_age' = Sat(submit_age, cfg.decode_interval_s)
          /\ \E half \in BOOLEAN :
               IF half
               THEN /\ sess_age' = IF cfg.timeout_s # 0
                                   THEN Sat(sess_age, cfg.timeout_s + 1)
                                   ELSE sess_age
                    /\ esc_age' = Sat(esc_age, _effort_schedule(cfg.mode)[2] + 1)
               ELSE UNCHANGED <<sess_age, esc_age>>
     ELSE UNCHANGED <<read_age, sess_age, submit_age, esc_age>>
  /\ join_age' = IF opc = "join" THEN Sat(join_age, JoinTimeout) ELSE join_age
  /\ get_age' = IF wpc = "get" THEN get_age + 1 ELSE get_age
  /\ dec_age' = IF wpc = "decoding" THEN dec_age + 1 ELSE dec_age
  /\ item_age' = IF wpc = "decoding" THEN Sat(item_age, cfg.decode_budget_ms + 1)
                 ELSE item_age
  /\ stop_age' = IF stop_event /\ ~ WorkerEnded THEN Sat(stop_age, PollTimeout + 1)
                 ELSE stop_age
  /\ UNCHANGED << pin, pout, cfg, opc, cap_open, level, found_data, found_rect, pending, result,
                  frame_no, in_q, out_q, stop_event, wpc, item, ci, got,
                  newest, first_hit, accepted, put_accepted, delivered,
                  worked_after_stop >>

Next ==
  \/ OrchOpen
  \/ OrchReadSubmit
  \/ OrchPollUI
  \/ OrchStop
  \/ OrchNudge
  \/ OrchJoin
  \/ WorkerCheck
  \/ WorkerGet
  \/ WorkerGetTimeout
  \/ WorkerDecode
  \/ WorkerHang
  \/ WorkerPut
  \/ Tick

Spec == Init /\ [][Next]_vars

\* the steps of scan_loop, and those of _decode_worker that return
OrchNext ==
  OrchOpen \/ OrchReadSubmit \/ OrchPollUI \/ OrchStop \/ OrchNudge \/ OrchJoin

WorkerNext ==
  WorkerCheck \/ WorkerGet \/ WorkerGetTimeout \/ WorkerDecode \/ WorkerPut

\* one session with preview window: both threads are scheduled and time passes;
\* nothing obliges a backend call to hang
InitFair == cfg = Config("fast", 2, TRUE, TRUE, 1, 0, 1) /\ InitSession /\ NoCall

FairSpec ==
  /\ InitFair
  /\ [][Next]_vars
  /\ WF_vars(OrchNext)
  /\ WF_vars(WorkerNext)
  /\ WF_vars(Tick)

\* ------------------------------------------------------------------------
\* Properties
\* ------------------------------------------------------------------------
\* the frame of a WorkItem; the poison item carries none
IsFrameItem(it) == it.img_gray # 0

\* C1: both channels hold at most one element, and every channel operation of the
\* orchestrator (the submit after a read, the poll, the poison put) can be taken
\* whatever the worker is doing: none of them waits for the worker.
C1_BoundedNonBlocking ==
  /\ Len(in_q) <= 1
  /\ Len(out_q) <= 1
  /\ opc = "read" => ENABLED OrchReadSubmit
  /\ opc = "poll" => ENABLED OrchPollUI
  /\ opc = "fin_nudge" => ENABLED OrchNudge

\* the orchestrator goes on to its poll while the worker is busy and the inbound
\* slot holds a frame older than the latest one submitted: that submit met a
\* full slot and returned
C1_Witness ==
  /\ in_q # <<>>
  /\ opc = "poll"
  /\ wpc = "decoding"
  /\ IsFrameItem(in_q[1])
  /\ in_q[1].img_gray < newest

\* C2 as stated: a frame the worker takes from the inbound slot is the most
\* recently submitted one.
C2_NewestWins ==
  [][ (wpc = "get" /\ wpc' \in {"decoding", "put"} /\ IsFrameItem(item'))
        => item'.img_gray = newest ]_vars

\* C2 amended: a submit that meets a full inbound slot leaves the slot as it is
\* (the new item is dropped), and the worker takes the item the slot held.
C2_FullSlotKeepsItem ==
  [][ /\ (opc = "read" /\ opc' = "poll" /\ in_q # <<>>) => in_q' = in_q
      /\ (wpc = "get" /\ wpc' \in {"decoding", "put"}) => item' = Head(in_q) ]_vars

\* the worker is processing a frame older than the latest one submitted, and that
\* one is not in the slot: it was dropped
C2_Witness ==
  /\ wpc = "decoding"
  /\ IsFrameItem(item)
  /\ item.img_gray < newest
  /\ in_q = <<>>

\* C3 as stated: the backend is not invoked for a WorkItem once one of its symbols
\* has passed the completeness predicate.
C3_StopsAtFirstComplete == ~ (wpc = "decoding" /\ got # NoneV)

\* C4 as stated: the outcome pushed for a WorkItem is the first complete symbol in
\* processing order, and is none iff no processed candidate had a complete symbol.
C4_PushesFirstComplete == wpc = "put" => got = first_hit

\* C5 as stated: once the worker has pushed, or tried to push, an accepted tuple it
\* never holds another accepted tuple.
C5_AtMostOneAccepted == put_accepted => got = NoneV

\* C6 as stated: no backend error and no malformed symbol ends the worker loop.
C6_ErrorsSwallowed == wpc # "dead"

\* C7 as stated: a worker that runs with the stop flag set has had it set for at
\* most one poll interval.
C7_WithinOnePoll ==
  (stop_event /\ wpc \in {"top", "get", "decoding", "put"}) => stop_age <= PollTimeout

\* C7 amended: a worker that holds no WorkItem at or after the stop ends within one
\* poll interval; otherwise it finishes that one WorkItem, takes no other, and ends
\* at its next check of the flag.
C7_StopsAtNextCheck ==
  /\ [] ( (stop_event /\ wpc \in {"top", "get"} /\ ~ worked_after_stop)
            => stop_age <= PollTimeout )
  /\ [][ /\ (stop_event /\ wpc = "get" /\ wpc' \in {"decoding", "put"})
              => ~ worked_after_stop
         /\ (stop_event /\ wpc = "top" /\ wpc' # wpc) => wpc' = "done" ]_vars

\* the worker ended after finishing a WorkItem, later than one poll interval after
\* the stop
C7_Witness ==
  /\ wpc = "done"
  /\ worked_after_stop
  /\ stop_age > PollTimeout

\* C8: once scan_loop enters its finally clause it returns, whatever the worker does.
C8_ShutdownReturns == (opc = "fin_stop") ~> (opc = "returned")

\* scan_loop has returned although the backend call never did and the poison put
\* met a full slot
C8_Witness ==
  /\ opc = "returned"
  /\ wpc = "hung"
  /\ in_q # <<>>
  /\ IsFrameItem(in_q[1])

\* C9: when scan_loop has returned the device is released and, if the worker was
\* started, the stop flag is set.
C9_ReleasedAndStopped ==
  result # NoneV => (~ cap_open /\ (wpc # "idle" => stop_event))

\* a cancelled session has returned while the worker is still running
C9_Witness ==
  /\ result # NoneV
  /\ result[1].message = "Cancelled by user."
  /\ wpc \in {"decoding", "hung"}
  /\ stop_event
  /\ ~ cap_open

EffortConfigs ==
  { Config("fast", 0, FALSE, FALSE, 2, 0, 1),
    Config("aggressive", 0, FALSE, FALSE, 2, 0, 1),
    Config("balanced", 0, FALSE, FALSE, 2, 0, 1),
    Config("turbo", 0, FALSE, FALSE, 2, 0, 1) }

InitEffort == cfg \in EffortConfigs /\ InitSession /\ NoCall

EffortSpec == InitEffort /\ [][Next]_vars

\* C11: the effort level never decreases during a session and never exceeds the
\* ceiling of the mode: 3 in mode fast, 5 in every other mode.
C11_EffortMonotoneBounded ==
  /\ [] (level <= IF cfg.mode = "fast" THEN 3 ELSE 5)
  /\ [][level' >= level]_vars

\* a session in an unrecognised mode has climbed to level 5 and goes on reading
C11_Witness ==
  /\ cfg.mode = "turbo"
  /\ level = 5
  /\ opc = "read"
  /\ esc_age > _effort_schedule(cfg.mode)[2]

\* ------------------------------------------------------------------------
\* generate_candidates on its own: one call per level and cap
\* ------------------------------------------------------------------------
MaxCap == 16

\* the session that is not running while a pure function is studied
NoSession == cfg = Config("balanced", 0, FALSE, FALSE, 1, 0, 1) /\ InitSession

InitGen ==
  /\ NoSession
  /\ pin \in [level : 0..5, max_candidates : 0..MaxCap]
  /\ pout = NoneV

\* list(generate_candidates(gray, level, max_candidates)), as the tags yielded
GenCall ==
  /\ pout = NoneV
  /\ pout' = Some(generate_candidates(pin.level, pin.max_candidates))
  /\ UNCHANGED << pin, cfg, orch_vars, in_q, out_q, stop_event, worker_vars, history_vars >>

GenSpec == InitGen /\ [][GenCall]_vars

\* the tags rotations() appends
RotationTags == {"r0", "r90", "r180", "r270"}

\* the candidates of a list that rotations() yielded: (tag of the variant, rotation)
Rotated(cands) ==
  { cands[i] : i \in {j \in 1..Len(cands) : Len(cands[j]) = 2 /\ cands[j][2] \in RotationTags} }

\* the variants that occur rotated in a list
RotatedVariants(cands) == { c[1] : c \in Rotated(cands) }

\* the call was at level 5 and the cap did not cut anything off
UncutLevel5 == pout # NoneV /\ pin.level = 5 /\ Len(pout[1]) < pin.max_candidates

\* C12: generate_candidates yields at most max_candidates images, rotations included.
C12_CandidateCap == pout # NoneV => Len(pout[1]) <= pin.max_candidates

\* a level-5 call whose cap cut the rotations short
C12_Witness ==
  /\ pout # NoneV
  /\ pin.level = 5
  /\ pin.max_candidates = 9
  /\ Len(pout[1]) = 9
  /\ pout[1][9] = << <<"gray">>, "r90" >>

\* C13 as stated: an uncut level-5 sequence holds the four rotations of the gray
\* and of the contrast-stretched variant, and rotations of no other variant.
C13_RotatesGrayAndFastc ==
  UncutLevel5 =>
    /\ \A v \in {"gray", "fastc"} : \A r \in RotationTags : <<<<v>>, r>> \in Rotated(pout[1])
    /\ RotatedVariants(pout[1]) \subseteq {<<"gray">>, <<"fastc">>}

\* C13 amended: an uncut level-5 sequence holds the four rotations of the gray
\* variant and rotations of no other variant, the contrast-stretched one included.
C13_RotatesGrayOnly ==
  UncutLevel5 =>
    /\ \A r \in RotationTags : <<<<"gray">>, r>> \in Rotated(pout[1])
    /\ RotatedVariants(pout[1]) = {<<"gray">>}

\* an uncut level-5 sequence: seven unrotated variants and four rotations
C13_Witness ==
  /\ UncutLevel5
  /\ Len(pout[1]) = 11
  /\ pout[1][2] = <<"fastc">>
  /\ pout[1][11] = << <<"gray">>, "r270" >>

\* ------------------------------------------------------------------------
\* parse_digikey_payload on its own: payloads built from a few tokens in several
\* wrappings, and some payloads without any DI
\* ------------------------------------------------------------------------
MaxTokens == 3

\* 30P1, Q5, 1PA, 1TL1, 1TL2, "Q 7 " (value between blanks), ZZ (no DI)
ParseTokens ==
  { <<51, 48, 80, 49>>, <<81, 53>>, <<49, 80, 65>>, <<49, 84, 76, 49>>,
    <<49, 84, 76, 50>>, <<81, 32, 55, 32>>, <<90, 90>> }

TokenLists == UNION { [1..n -> ParseTokens] : n \in 0..MaxTokens }

\* sep.join(parts)
RECURSIVE Join(_, _)
Join(parts, sep) ==
  IF parts = <<>> THEN <<>>
  ELSE IF Len(parts) = 1 THEN parts[1]
  ELSE parts[1] \o sep \o Join(Tail(parts), sep)

Wrappings == {"bare", "envelope", "placeholders", "header", "trailer"}

\* the payload that carries the tokens in a wrapping
Render(toks, wrapping) ==
  CASE wrapping = "bare" -> Join(toks, <<GS>>)
    [] wrapping = "envelope" -> EnvelopeHeader \o Join(toks, <<GS>>) \o <<RS, EOT>>
    [] wrapping = "placeholders" ->
         <<91, 41, 62>> \o PlaceholderRS \o <<48, 54>> \o PlaceholderGS
           \o Join(toks, PlaceholderGS) \o PlaceholderRS \o PlaceholderEOT
    [] wrapping = "header" -> EnvelopeHeader \o Join(toks, <<GS>>)
    [] wrapping = "trailer" -> Join(toks, <<GS>>) \o <<RS, EOT, EOT>>

\* n times the character c
Repeat(c, n) == [i \in 1..n |-> c]

\* malformed payloads: a quantity that is no integer (QX), an empty quantity (Q),
\* a country of three letters (4LUSA), an escape cut short at the end
\* (30P1\x1), an escape without digits (\x), an escape with a non-hex digit
\* (Q5\xG1), a lone GS, and a closing RS EOT with nothing before it
MalformedInputs ==
  { <<81, 88>>, <<81>>, <<52, 76, 85, 83, 65>>,
    <<51, 48, 80, 49, 92, 120, 49>>, <<92, 120>>, <<81, 53, 92, 120, 71, 49>>,
    <<GS>>, <<RS, EOT>> }

\* "[)>" RS "06" GS "30P123" GS "Q5" RS EOT
EnvelopeExample ==
  EnvelopeHeader \o <<51, 48, 80, 49, 50, 51, GS, 81, 53>> \o <<RS, EOT>>

\* payloads of digits (5, 6, 14 and 15 of them), digits between blanks, in an
\* envelope, with a superscript two, 30P1 <\x47S> Q5 where the textual escape
\* decodes to the G of a placeholder, and the envelope of 30P123 and Q5
SpecialInputs ==
  { Repeat(49, 5), Repeat(49, 6), Repeat(49, 14), Repeat(49, 15),
    <<32>> \o Repeat(50, 6) \o <<10>>,
    EnvelopeHeader \o Repeat(51, 8) \o <<RS, EOT>>,
    Repeat(52, 5) \o <<178>>,
    <<51, 48, 80, 49, 60, 92, 120, 52, 55, 83, 62, 81, 53>>,
    EnvelopeExample } \cup MalformedInputs

ParseInputs ==
  { Render(toks, w) : toks \in TokenLists, w \in Wrappings } \cup SpecialInputs

InitParse ==
  /\ NoSession
  /\ pin \in { <<raw>> : raw \in ParseInputs }
  /\ pout = NoneV

\* parse_digikey_payload(raw) for each raw payload of pin
ParseCall ==
  /\ pout = NoneV
  /\ pout' = Some([i \in 1..Len(pin) |-> parse_digikey_payload(pin[i])])
  /\ UNCHANGED << pin, cfg, orch_vars, in_q, out_q, stop_event, worker_vars, history_vars >>

ParseSpec == InitParse /\ [][ParseCall]_vars

\* the calls have returned; the parse of the first and of the second payload
Returned == pout # NoneV
Parsed1 == pout[1][1]
Parsed2 == pout[1][2]

\* the payload is the digits-only fallback
IsFallback(parsed) == parsed.inference = "digits_only_internal_id"

\* C14: the completeness predicate holds iff 30P, Q and 1P are keys of by_di and
\* the payload is not the digits-only fallback; it fails whenever by_di is empty.
C14_CompleteIffRequired ==
  Returned =>
    /\ _is_complete_payload(Parsed1)
         <=> ({"30P", "Q", "1P"} \subseteq DOMAIN Parsed1.by_di /\ ~ IsFallback(Parsed1))
    /\ DOMAIN Parsed1.by_di = {} => ~ _is_complete_payload(Parsed1)

\* a payload outside an envelope with 30P, Q and 1P is complete
C14_Witness ==
  /\ Returned
  /\ pin[1] = Render(<< <<49, 80, 65>>, <<51, 48, 80, 49>>, <<81, 53>> >>, "bare")
  /\ _is_complete_payload(Parsed1)
  /\ ~ Parsed1.envelope_valid

\* the DIs of a list that are not keys of by_di, in the order of the list
Missing(dis, parsed) == SelectSeq(dis, LAMBDA di : di \notin DOMAIN parsed.by_di)

\* C15 as stated: missing_required is the required set of the completeness
\* predicate minus the DIs present, so outside the digits-only fallback a payload
\* is complete iff missing_required is empty.
C15_MissingMirrorsCompleteness ==
  Returned =>
    /\ Parsed1.missing_required = Missing(<< "30P", "Q", "1P" >>, Parsed1)
    /\ ~ IsFallback(Parsed1)
         => (_is_complete_payload(Parsed1) <=> Parsed1.missing_required = <<>>)

\* C15 amended: missing_required is the minimal set 30P, Q minus the DIs present;
\* a complete payload has none missing, and outside the digits-only fallback a
\* payload is complete iff none is missing and 1P is present as well.
C15_MissingIsMinimalPolicy ==
  Returned =>
    /\ Parsed1.missing_required = Missing(<< "30P", "Q" >>, Parsed1)
    /\ _is_complete_payload(Parsed1) => Parsed1.missing_required = <<>>
    /\ ~ IsFallback(Parsed1)
         => (_is_complete_payload(Parsed1)
               <=> (Parsed1.missing_required = <<>> /\ "1P" \in DOMAIN Parsed1.by_di))

\* a payload in an envelope with 30P and Q but no 1P: nothing is reported
\* missing, and it is not complete
C15_Witness ==
  /\ Returned
  /\ Parsed1.envelope_valid
  /\ DOMAIN Parsed1.by_di = {"30P", "Q"}
  /\ Parsed1.missing_required = <<>>
  /\ ~ _is_complete_payload(Parsed1)

\* the DIs of the table that are a prefix of a token
PrefixDIs(tok) ==
  { d \in {DI_ORDER[i] : i \in 1..Len(DI_ORDER)} : StartsWith(tok, DIBytes(d)) }

\* the longest of them, or None
LongestDI(tok) ==
  IF PrefixDIs(tok) = {} THEN None
  ELSE CHOOSE d \in PrefixDIs(tok) :
         \A e \in PrefixDIs(tok) : Len(DIBytes(e)) <= Len(DIBytes(d))

\* a token without its DI
Rest(tok, di) == SubSeq(tok, Len(DIBytes(di)) + 1, Len(tok))

\* the positions of the tokens of a list whose longest DI is di
Occurrences(toks, di) == { i \in 1..Len(toks) : LongestDI(toks[i]) = di }

\* the last of them
LastOccurrence(toks, di) ==
  CHOOSE i \in Occurrences(toks, di) : \A j \in Occurrences(toks, di) : j <= i

\* every token is filed under its longest DI prefix, or as unknown
FiledByLongestDI(parsed, toks) ==
  /\ DOMAIN parsed.by_di = { LongestDI(toks[i]) : i \in 1..Len(toks) } \ {None}
  /\ parsed.unknown_groups = SelectSeq(toks, LAMBDA t : LongestDI(t) = None)

\* C16 as stated: every token is filed under its longest DI prefix, the value
\* kept for a DI is the rest of its (last) token, tokens without DI prefix go to
\* unknown_groups.
C16_ValueIsRestOfToken ==
  Returned =>
    LET toks == Tokens(Parsed1.body)
    IN  /\ FiledByLongestDI(Parsed1, toks)
        /\ \A d \in DOMAIN Parsed1.by_di :
             Parsed1.by_di[d] = Rest(toks[LastOccurrence(toks, d)], d)

\* C16 amended: the same, the value being the rest of the token with the
\* whitespace at both ends stripped.
C16_ValueIsStrippedRest ==
  Returned =>
    LET toks == Tokens(Parsed1.body)
    IN  /\ FiledByLongestDI(Parsed1, toks)
        /\ \A d \in DOMAIN Parsed1.by_di :
             Parsed1.by_di[d] = Strip(Rest(toks[LastOccurrence(toks, d)], d), StrWhitespace)

\* a body "Q 7 " GS 30P1 GS ZZ: quantity "7", part number "1", one unknown token
C16_Witness ==
  /\ Returned
  /\ Tokens(Parsed1.body) = << <<81, 32, 55, 32>>, <<51, 48, 80, 49>>, <<90, 90>> >>
  /\ Parsed1.by_di = [d \in {"Q", "30P"} |-> IF d = "Q" THEN <<55>> ELSE <<49>>]
  /\ Parsed1.unknown_groups = << <<90, 90>> >>

\* the values of the tokens filed under di, in order of occurrence
RECURSIVE ValuesOf(_, _)
ValuesOf(toks, di) ==
  IF toks = <<>> THEN <<>>
  ELSE IF LongestDI(Head(toks)) = di
       THEN <<Strip(Rest(Head(toks), di), StrWhitespace)>> \o ValuesOf(Tail(toks), di)
       ELSE ValuesOf(Tail(toks), di)

\* C17: for a DI that occurs n >= 1 times, by_di holds the value of the last
\* occurrence and duplicates holds, in order, the n-1 displacements of that DI as
\* (previous, kept); a DI that occurs once has no entry.
C17_LastWinsAndLogged ==
  Returned =>
    \A d \in DOMAIN Parsed1.by_di :
      LET vals == ValuesOf(Tokens(Parsed1.body), d)
      IN  /\ Len(vals) >= 1
          /\ Parsed1.by_di[d] = vals[Len(vals)]
          /\ SelectSeq(Parsed1.duplicates, LAMBDA e : e.di = d)
               = [i \in 1..(Len(vals) - 1) |->
                    [di |-> d, previous |-> vals[i], kept |-> vals[i + 1]]]

\* Q occurs three times (values 5, 7, 5): by_di keeps the last, duplicates holds
\* the two displacements in order
C17_Witness ==
  /\ Returned
  /\ Len(Tokens(Parsed1.body)) = 3
  /\ ValuesOf(Tokens(Parsed1.body), "Q") = << <<53>>, <<55>>, <<53>> >>
  /\ Parsed1.by_di["Q"] = <<53>>
  /\ Parsed1.duplicates =
       << [di |-> "Q", previous |-> <<53>>, kept |-> <<55>>],
          [di |-> "Q", previous |-> <<55>>, kept |-> <<53>>] >>

\* ------------------------------------------------------------------------
\* parse_digikey_payload on two payloads, to compare their parses
\* ------------------------------------------------------------------------
MaxPairTokens == 2

\* 30P1, Q5, 1PA, 4Lus (a country in lower case), ZZ (no DI)
PairTokens ==
  { <<51, 48, 80, 49>>, <<81, 53>>, <<49, 80, 65>>, <<52, 76, 117, 115>>, <<90, 90>> }

PairLists == UNION { [1..n -> PairTokens] : n \in 0..MaxPairTokens }

\* the first payload is bare or special, the second in an envelope or special
InitPair ==
  /\ NoSession
  /\ pin \in { <<Render(a, "bare"), Render(b, "envelope")>> : a, b \in PairLists }
             \cup { <<x, y>> : x, y \in SpecialInputs }
             \cup { <<Render(a, "bare"), y>> : a \in PairLists, y \in SpecialInputs }
  /\ pout = NoneV

PairSpec == InitPair /\ [][ParseCall]_vars

\* the keys that a DI of by_di can put into fields: its canonical name, the
\* legacy alias of mfr_part_number, the annotations of 10D and 4L
KeysOfDI(di) ==
  {DI_TO_FIELD(di)}
    \cup (IF di = "1P" THEN {"manufacturer_part_number"} ELSE {})
    \cup (IF di = "10D" THEN {"date_code_sources"} ELSE {})
    \cup (IF di = "4L" THEN {"_warnings"} ELSE {})

KeysFromDIs(parsed) == UNION { KeysOfDI(d) : d \in DOMAIN parsed.by_di }

\* C18 as stated: two parses with the same by_di have the same fields, and every
\* key of fields comes from a DI that is present in by_di.
C18_FieldsProjectByDi ==
  Returned =>
    /\ Parsed1.by_di = Parsed2.by_di => Parsed1.fields = Parsed2.fields
    /\ DOMAIN Parsed1.fields \subseteq KeysFromDIs(Parsed1)
    /\ DOMAIN Parsed2.fields \subseteq KeysFromDIs(Parsed2)

\* C18: outside the digits-only fallback, two parses with the same by_di have the
\* same fields and every key of fields comes from a DI present in by_di; in the
\* fallback by_di is empty and fields has the one key internal_part_id, which no
\* DI of by_di accounts for.
C18_FieldsProjectByDiOrFallback ==
  Returned =>
    /\ (Parsed1.by_di = Parsed2.by_di /\ ~ IsFallback(Parsed1) /\ ~ IsFallback(Parsed2))
         => Parsed1.fields = Parsed2.fields
    /\ \A parsed \in {Parsed1, Parsed2} :
         IF IsFallback(parsed)
         THEN parsed.by_di = EmptyMap /\ DOMAIN parsed.fields = {"internal_part_id"}
         ELSE DOMAIN parsed.fields \subseteq KeysFromDIs(parsed)

\* the same DIs in another order and another wrapping: by_di and fields agree,
\* with the country in upper case
C18_Witness ==
  /\ Returned
  /\ pin[1] = Render(<< <<52, 76, 117, 115>>, <<81, 53>> >>, "bare")
  /\ pin[2] = Render(<< <<81, 53>>, <<52, 76, 117, 115>> >>, "envelope")
  /\ Parsed1.by_di = Parsed2.by_di
  /\ DOMAIN Parsed1.fields = {"country_of_origin", "quantity"}
  /\ Parsed1.fields = Parsed2.fields
  /\ Parsed2.fields["country_of_origin"] = <<85, 83>>

\* the body is one or more decimal digits 0..9
OnlyDigits(body) == body # <<>> /\ \A i \in 1..Len(body) : body[i] \in 48..57

\* C19: when no DI matched and the body is 6 to 14 digits, fields is exactly
\* {internal_part_id: body}, the inference is digits_only_internal_id and the
\* payload is not complete; a body of at most 5 or at least 15 digits gets no
\* inference and no internal_part_id.
C19_DigitsOnlyFallback ==
  Returned =>
    /\ (Parsed1.by_di = EmptyMap /\ OnlyDigits(Parsed1.body)
          /\ 6 <= Len(Parsed1.body) /\ Len(Parsed1.body) <= 14)
         => /\ Parsed1.fields = [k \in {"internal_part_id"} |-> Parsed1.body]
            /\ Parsed1.inference = "digits_only_internal_id"
            /\ ~ _is_complete_payload(Parsed1)
    /\ (OnlyDigits(Parsed1.body) /\ (Len(Parsed1.body) <= 5 \/ Len(Parsed1.body) >= 15))
         => /\ Parsed1.inference = None
            /\ "internal_part_id" \notin DOMAIN Parsed1.fields

\* fourteen digits are taken as the internal part id
C19_Witness ==
  /\ Returned
  /\ pin[1] = Repeat(49, 14)
  /\ Parsed1.body = Repeat(49, 14)
  /\ Parsed1.fields = [k \in {"internal_part_id"} |-> Repeat(49, 14)]
  /\ IsFallback(Parsed1)

\* b is "[)>" RS "06" GS body RS EOT for some body
HasEnvelopeForm(b) ==
  \E n \in 0..Len(b) :
    /\ Len(b) = Len(EnvelopeHeader) + n + 2
    /\ SubSeq(b, 1, Len(EnvelopeHeader)) = EnvelopeHeader
    /\ SubSeq(b, Len(b) - 1, Len(b)) = <<RS, EOT>>

\* b without its trailing RS/EOT bytes and then without a leading header
WithoutTrailerAndHeader(b) ==
  LET t == RStrip(b, {RS, EOT})
  IN  IF StartsWith(t, EnvelopeHeader)
      THEN SubSeq(t, Len(EnvelopeHeader) + 1, Len(t))
      ELSE t

\* C20: envelope.valid holds iff the normalized input is "[)>" RS "06" GS body
\* RS EOT, and then the tokens come from that body (30P123 GS Q5 gives part
\* number 123 and the integer quantity 5); for any other input the body is the
\* normalized input without trailing RS/EOT bytes and without a leading header.
C20_EnvelopeDecidesBody ==
  Returned =>
    LET n == _normalize_controls(pin[1])
    IN  /\ Parsed1.envelope_valid <=> HasEnvelopeForm(n)
        /\ HasEnvelopeForm(n) =>
             Parsed1.body = SubSeq(n, Len(EnvelopeHeader) + 1, Len(n) - 2)
        /\ pin[1] = EnvelopeExample =>
             /\ Parsed1.fields["digikey_part_number"] = <<49, 50, 51>>
             /\ Parsed1.fields["quantity"] = <<"int", 5>>
        /\ ~ HasEnvelopeForm(n) => Parsed1.body = WithoutTrailerAndHeader(n)

\* an exception left the parser: the value it would have computed is a raise
Raises(parsed) ==
  /\ "quantity" \in DOMAIN parsed.fields
  /\ parsed.fields["quantity"][1] = "raise"

\* C21: parse_digikey_payload returns a ParsedPayload for every byte sequence and
\* never an error; a quantity that is no integer stays as the text of by_di, a
\* country that is no two-letter code gets a warning, a token without DI goes to
\* unknown_groups, an absent 30P or Q goes to missing_required.
C21_ParserIsTotal ==
  Returned =>
    /\ ~ Raises(Parsed1)
    /\ Parsed1.envelope_valid \in BOOLEAN
    /\ "Q" \in DOMAIN Parsed1.by_di =>
         \/ Parsed1.fields["quantity"][1] = "int"
         \/ /\ Parsed1.fields["quantity"][1] = "str"
            /\ Parsed1.fields["quantity"][2] = Parsed1.by_di["Q"]
    /\ "4L" \in DOMAIN Parsed1.by_di =>
         \/ IsTwoLetterCode(Parsed1.fields["country_of_origin"])
         \/ "_warnings" \in DOMAIN Parsed1.fields
    /\ \A i \in 1..Len(REQUIRED_DIs) :
         REQUIRED_DIs[i] \notin DOMAIN Parsed1.by_di =>
           \E j \in 1..Len(Parsed1.missing_required) :
             Parsed1.missing_required[j] = REQUIRED_DIs[i]

\* the payload QX: the quantity X is kept as text and 30P is reported missing
C21_Witness ==
  /\ Returned
  /\ pin[1] = <<81, 88>>
  /\ Parsed1.by_di["Q"] = <<88>>
  /\ Parsed1.fields["quantity"][1] = "str"
  /\ Parsed1.fields["quantity"][2] = <<88>>
  /\ Parsed1.missing_required = << "30P" >>

\* the level a mode starts at
ModeFloor(mode) == IF mode = "aggressive" THEN 1 ELSE 0

\* the seconds 2.5, 1.0 and 1.8 between escalations, in half seconds rounded down
ModeInterval(mode) ==
  IF mode = "fast" THEN 5 ELSE IF mode = "aggressive" THEN 2 ELSE 3

\* C22: the level starts at the floor of the mode; afterwards it changes only by
\* an escalation, which adds exactly one, in a poll where the orchestrator holds
\* no accepted result once the outbound slot is drained and the time since the
\* last escalation exceeds the interval of the mode; from the frame in which a
\* result is accepted the level stays as it is.
C22_EscalatesByOneUntilAccepted ==
  [][ /\ (opc = "init" /\ opc' # "returned") => level' = ModeFloor(cfg.mode)
      /\ (opc # "init" /\ level' # level) =>
           /\ level' = level + 1
           /\ opc = "poll"
           /\ found_data' = NoneV
           /\ esc_age > ModeInterval(cfg.mode)
      /\ (opc # "init" /\ (found_data # NoneV \/ found_data' # NoneV)) => level' = level
    ]_vars

\* an aggressive session escalated from its floor 1 to 2 and then accepted a
\* result: the level is frozen at 2
C22_Witness ==
  /\ cfg.mode = "aggressive"
  /\ level = 2
  /\ found_data # NoneV
  /\ opc = "fin_stop"
  /\ pending = "OK"

\* scan_loop has left the frame loop: it is in the finally clause or has returned
LeftLoop == opc \in {"fin_stop", "fin_nudge", "join", "returned"}

\* C23 as stated: once found_data is set the loop is left in that iteration and
\* the session ends in Success, whatever cancel, timeout or capture failure.
C23_AcceptedMeansSuccess ==
  found_data # NoneV =>
    /\ LeftLoop
    /\ pending = "OK"
    /\ result # NoneV => result[1].success

\* C23: once found_data is set the loop is left in that same iteration, and
\* neither the timeout nor a capture failure can intervene; the session ends in
\* Success unless the cancel key or button is seen in the UI step of that
\* iteration (preview window shown), and then it ends as cancelled and the
\* accepted payload is not returned.
C23_AcceptedMeansSuccessOrCancel ==
  found_data # NoneV =>
    /\ LeftLoop
    /\ pending \in {"OK", "Cancelled by user."}
    /\ pending = "Cancelled by user." => cfg.show_window
    /\ result # NoneV =>
         IF pending = "OK"
         THEN result[1].success /\ result[1].raw = found_data
         ELSE ~ result[1].success /\ result[1].raw = NoneV

\* the cancel key is seen in the iteration that drained the accepted payload
C23_Witness ==
  /\ found_data # NoneV
  /\ pending = "Cancelled by user."
  /\ result # NoneV
  /\ ~ result[1].success

\* the messages of the failure returns: Timeout, CaptureFailure (read, open),
\* UserCancelled
FailureMessages ==
  { "Timed out without detecting a DataMatrix code.", "Failed to read from camera.",
    "Unable to open camera index", "Cancelled by user." }

\* C24: a session returns one ScanResult, which never changes afterwards;
\* success is true only when the orchestrator drained a non-empty accepted
\* payload, and then raw is that payload, data is its parse and data is complete
\* (30P, Q and 1P in by_di); a Timeout, CaptureFailure or UserCancelled result
\* has success false and neither data nor raw.
C24_OneResultSuccessOnlyIfAccepted ==
  /\ [] ((opc = "returned") <=> (result # NoneV))
  /\ [] (result # NoneV =>
           IF result[1].success
           THEN /\ found_data # NoneV
                /\ found_data[1] # <<>>
                /\ found_data = delivered
                /\ result[1].raw = found_data
                /\ result[1].data = Some(ParsedOf[found_data[1]])
                /\ _is_complete_payload(result[1].data[1])
                /\ {"30P", "Q", "1P"} \subseteq DOMAIN result[1].data[1].by_di
           ELSE /\ result[1].message \in FailureMessages
                /\ result[1].data = NoneV
                /\ result[1].raw = NoneV)
  /\ [][result # NoneV => result' = result]_vars

\* a session returned success with the second sample payload, which carries no
\* envelope
C24_Witness ==
  /\ result # NoneV
  /\ result[1].success
  /\ result[1].raw = Some(PayloadFullB)
  /\ ~ result[1].data[1].envelope_valid
  /\ opc = "returned"

\* C25: an accepted decode can be lost at the outbound channel.  Whenever the
\* worker puts an accepted tuple while the outbound slot still holds the outcome
\* of an earlier WorkItem, the put is dropped: the slot keeps what it held, the
\* worker forgets the tuple and goes back to its loop, and found_data is only
\* ever taken from the slot.  C25_Witness is the interleaving in which this
\* happens and the session ends without the payload.
C25_AcceptedDroppedOnFullSlot ==
  [][ /\ (wpc = "put" /\ wpc' # "put" /\ got # NoneV /\ Len(out_q) = QueueMaxsize) =>
           /\ out_q' = out_q
           /\ got' = NoneV
           /\ wpc' = "top"
           /\ found_data' = found_data
      /\ found_data' # found_data =>
           /\ out_q # <<>>
           /\ Head(out_q) # NoneV
           /\ found_data' = Some(Head(out_q)[1].raw)
    ]_vars

\* the worker accepted a payload, every put of an accepted tuple met the slot
\* still holding the none outcome of the WorkItem before, and the session has
\* returned a failure
C25_Witness ==
  /\ opc = "returned"
  /\ accepted # NoneV
  /\ put_accepted
  /\ delivered = NoneV
  /\ found_data = NoneV
  /\ ~ result[1].success
  /\ result[1].message = "Timed out without detecting a DataMatrix code."

\* ------------------------------------------------------------------------
\* Sessions that are scheduled and in which time advances: one without timeout
\* (timeout 0, the default of scan_part), one with a timeout
\* ------------------------------------------------------------------------
LiveConfigs ==
  { Config("fast", 0, FALSE, FALSE, 2, 0, 1),
    Config("balanced", 1, FALSE, FALSE, 1, 1, 1) }

InitLive == cfg \in LiveConfigs /\ InitSession /\ NoCall

\* the session clock moves on while a frame is read
TimePasses ==
  /\ Tick
  /\ opc = "read"
  /\ cfg.timeout_s # 0 => sess_age' # sess_age

LiveSpec ==
  /\ InitLive
  /\ [][Next]_vars
  /\ WF_vars(OrchNext)
  /\ WF_vars(WorkerNext)
  /\ WF_vars(Tick)
  /\ SF_vars(TimePasses)

\* C26 as stated: every session eventually returns, whatever its configuration.
C26_AlwaysTerminates == <> (opc = "returned")

\* C26: a session with a timeout eventually returns a ScanResult of one of the
\* four terminal states, whatever the worker does; a session without timeout
\* (timeout 0, the default) returns only on an accepted payload, a failed read or
\* open, or a cancel, and never as timed out.
C26_TerminatesWithTimeout ==
  /\ (cfg.timeout_s # 0) => <> (opc = "returned")
  /\ [] ((opc = "returned" /\ cfg.timeout_s = 0) =>
           result[1].message \in
             {"OK", "Failed to read from camera.", "Unable to open camera index",
              "Cancelled by user."})

\* a session with a timeout returned as timed out while the backend call of the
\* worker hangs
C26_Witness ==
  /\ opc = "returned"
  /\ cfg.timeout_s # 0
  /\ wpc = "hung"
  /\ result[1].message = "Timed out without detecting a DataMatrix code."

\* C27: the worker decodes the first candidate of every WorkItem it takes,
\* whatever the budget; after a candidate, when the time since the item started
\* exceeds decode_budget_ms and nothing is accepted, it decodes no further
\* candidate of the item and pushes a none outcome; every WorkItem taken ends in
\* exactly one attempt to push its outcome.
C27_BudgetAndOnePush ==
  [][ /\ (wpc = "get" /\ wpc' # "get" /\ wpc' # "top") =>
           wpc' = "decoding" /\ ci' = 1 /\ item' = Head(in_q)
      /\ (wpc = "decoding" /\ wpc' = "decoding" /\ ci' # ci) =>
           ~ (got' = NoneV /\ item_age > cfg.decode_budget_ms)
      /\ (wpc = "decoding" /\ wpc' \notin {"decoding", "hung"}) => wpc' = "put"
      /\ (wpc = "put" /\ wpc' # "put") =>
           /\ wpc' = "top"
           /\ out_q' = put_nowait(out_q, got)
    ]_vars

\* C28 as stated: once the stop flag is set the worker hands no further WorkItem
\* to the backend and pushes nothing more; the poison item is never decoded.
C28_NothingAfterStop ==
  [][ stop_event =>
        /\ ~ (wpc = "get" /\ wpc' = "decoding")
        /\ ~ (wpc = "put" /\ wpc' = "top")
        /\ ~ (wpc' = "decoding" /\ item' = PoisonItem) ]_vars

\* C28: once the stop flag is set the worker starts no new wait, but the wait
\* under way still returns whatever the inbound slot holds or receives, the
\* poison item included: that one WorkItem is decoded like any other and its
\* outcome is pushed; a WorkItem in progress when the flag is set is finished and
\* pushed as well.  After that push the worker takes nothing more and ends.
C28_OneMoreItemAfterStop ==
  [][ stop_event =>
        /\ (wpc = "get" /\ wpc' # "get") =>
             \/ in_q = <<>> /\ wpc' = "top"
             \/ /\ in_q # <<>>
                /\ ~ worked_after_stop
                /\ worked_after_stop'
                /\ item' = Head(in_q)
                /\ wpc' = "decoding"
        /\ (wpc = "put" /\ wpc' # "put") =>
             /\ worked_after_stop
             /\ out_q' = put_nowait(out_q, got)
             /\ wpc' = "top"
        /\ (wpc = "top" /\ wpc' # "top") => wpc' = "done"
        /\ wpc = "done" => wpc' = "done" ]_vars

\* the orchestrator waits in worker.join and the worker is decoding the poison item
C28_Witness ==
  /\ stop_event
  /\ opc = "join"
  /\ wpc = "decoding"
  /\ item = PoisonItem
  /\ ci = 1
  /\ worked_after_stop

\* the six candidates of level 3: gray, fastc, clahe, sharp, gray+inv, fastc+inv
SixCandidates ==
  << <<"gray">>, <<"fastc">>, <<"clahe">>, <<"sharp">>, <<"gray", "inv">>,
     <<"fastc", "inv">> >>

\* C29: the sequence of level L under cap m is the first m elements (all of them
\* if there are fewer) of the sequence of level L that no cap cuts, and it is a
\* prefix of the sequence of level L+1 under the same cap; under the default cap
\* of 6 the levels 3, 4 and 5 yield the same six candidates.
C29_NestedCandidates ==
  pout # NoneV =>
    LET seq == pout[1]
        m == pin.max_candidates
        uncut == generate_candidates(pin.level, MaxCap)
        next == generate_candidates(pin.level + 1, m)
    IN  /\ Len(uncut) < MaxCap
        /\ Len(seq) = (IF m < Len(uncut) THEN m ELSE Len(uncut))
        /\ \A i \in 1..Len(seq) : seq[i] = uncut[i]
        /\ pin.level < 5 =>
             /\ Len(seq) <= Len(next)
             /\ \A i \in 1..Len(seq) : next[i] = seq[i]
        /\ (m = 6 /\ pin.level >= 3) => seq = SixCandidates

\* level 5 under the default cap: the six candidates of level 3, no upscale and
\* no rotation
C29_Witness ==
  /\ pout # NoneV
  /\ pin.level = 5
  /\ pin.max_candidates = 6
  /\ pout[1] = SixCandidates
  /\ generate_candidates(4, 6) = pout[1]

\* the payload b inside a valid envelope
InEnvelope(b) == EnvelopeHeader \o b \o <<RS, EOT>>

\* C30: _normalize_controls is idempotent, so a body yields the same by_di bare
\* (normalized a second time by _bytes_clean) and inside a valid envelope
\* (normalized once).
C30_NormalizeIdempotent ==
  pout # NoneV =>
    LET n == _normalize_controls(pin[1])
    IN  /\ _normalize_controls(n) = n
        /\ (~ HasEnvelopeForm(n) /\ WithoutTrailerAndHeader(n) = n) =>
             Parsed1.by_di = parse_digikey_payload(InEnvelope(pin[1])).by_di

====
